---- MODULE Spec2Model ----
(***************************************************************************)
(* Model of CompareCompression.py: a benchmark that re-encodes one GeoTIFF *)
(* under six GDAL compression settings, measures size, write time and read *)
(* time of every copy, deletes the copies and prints a 3 x 6 table.        *)
(*                                                                         *)
(* The state is the part of the filesystem the script touches, the program *)
(* counter of the script (module level statements, then main() and its     *)
(* five stage functions, one loop iteration per step) and the three result *)
(* rows.  GDAL, os and pandas are modelled by their outcome: a call        *)
(* succeeds, returns None without raising, or raises.                      *)
(***************************************************************************)
EXTENDS Integers, Sequences, FiniteSets, TLC

\* Largest stale artifact prefix {1..k} a previous, interrupted run may have
\* left in the scratch directory when the script starts.
MaxStale == 2

\* len(files): the six output paths of the catalog, in catalog order
\* 1 uncompressed, 2 packbits, 3 deflate_1, 4 deflate_2, 5 lzw_1, 6 lzw_2.
NumVariants == 6

files == 1..NumVariants

\* The value every write_x / size_x / read_x local is declared with.
Sentinel == ""

\* A measurement that was taken (an elapsed time, a formatted size).
Measured == "val"

\* The six locals of a stage function right after their declaration.
EmptyRow == [i \in 1..NumVariants |-> Sentinel]

\* A name of main() that has not been assigned yet.
Unset == [kind |-> "unset", cells |-> <<>>]

\* What a stage function returns when its except clause ran: no return
\* statement is reached, so the call evaluates to None.
NoneVal == [kind |-> "none", cells |-> <<>>]

\* What a stage function returns on its normal path: the list of its locals.
ListOf(cells) == [kind |-> "list", cells |-> cells]

IsRow(r) == r.kind = "list" /\ Len(r.cells) = NumVariants

\* Sets of artifacts that may already lie in the scratch directory at start.
StaleSets == {1..k : k \in 0..MaxStale} \cup {files}

\* The filesystem around the source image:
\*   parent  the directory os.path.dirname(src_img) exists
\*   src     the source image exists in it
\*   other   the parent holds entries besides the source image and tmp
\*   tmp     the scratch directory tmp_dir exists
\*   extra   tmp holds entries besides the six artifacts
\*   art     the artifacts (catalog positions) that exist in tmp
FsStates ==
  { f \in [parent : BOOLEAN, src : BOOLEAN, other : BOOLEAN,
           tmp : BOOLEAN, extra : BOOLEAN, art : StaleSets] :
      /\ (f.src \/ f.other \/ f.tmp) => f.parent
      /\ (f.extra \/ f.art # {}) => f.tmp }

VARIABLES
  fs,         \* the filesystem now
  fs0,        \* the filesystem when the script was started
  pc,         \* "start", a stage of main(), "done" or "crashed"
  idx,        \* position of the running stage's for loop, 1..NumVariants+1
  loc,        \* the six locals of the running stage function
  writes,     \* main(): writes
  sizes,      \* main(): sizes
  reads,      \* main(): reads
  table,      \* what print_results printed: "none", "rendered", "error"
  stages,     \* the stage functions main() has called, in call order
  op,         \* the last library call made on the filesystem or an artifact
  encTried,   \* number of loop iterations generate_compressed_images began
  sizeTried,  \* number of loop iterations calculate_file_size began
  readTried,  \* number of loop iterations calculate_read_times began
  encFailed,  \* variants whose gdal.Translate failed in this run
  decFailed,  \* variants whose existing artifact failed to decode
  rmTried,    \* number of os.remove calls remove_directory made
  rmdirTried  \* os.removedirs was called

vars == <<fs, fs0, pc, idx, loc, writes, sizes, reads, table, stages, op,
          encTried, sizeTried, readTried, encFailed, decFailed, rmTried,
          rmdirTried>>

----------------------------------------------------------------------------
\* Library calls, by their effect on the filesystem.

\* os.path.exists(tmp_dir)
OsPathExists(f) == f.tmp

\* os.makedirs(tmp_dir): creates tmp_dir and every missing directory above
\* it; raises FileExistsError when tmp_dir is already there.
OsMakedirs(f) ==
  IF f.tmp
    THEN [fs |-> f, err |-> TRUE]
    ELSE [fs |-> [f EXCEPT !.tmp = TRUE, !.parent = TRUE], err |-> FALSE]

\* The same preparation without the existence test.
PrepareScratchNoCheck(f) == OsMakedirs(f)

\* if not os.path.exists(tmp_dir): os.makedirs(tmp_dir)
PrepareScratch(f) ==
  IF ~OsPathExists(f) THEN OsMakedirs(f) ELSE [fs |-> f, err |-> FALSE]

\* os.remove(file): raises when the file is not there.
OsRemove(f, i) ==
  IF i \in f.art
    THEN [fs |-> [f EXCEPT !.art = @ \ {i}], err |-> FALSE]
    ELSE [fs |-> f, err |-> TRUE]

\* os.removedirs(tmp_dir): rmdir(tmp_dir), raising when it is missing or not
\* empty; then every parent directory is removed as long as it is empty,
\* and the first failure there ends the call silently.
OsRemoveDirs(f) ==
  IF ~f.tmp \/ f.extra \/ f.art # {}
    THEN [fs |-> f, err |-> TRUE]
    ELSE [fs |-> [f EXCEPT !.tmp = FALSE,
                           !.parent = (f.src \/ f.other)],
          err |-> FALSE]

\* gdal.Open(src) and gdal.Translate(dest, src, options): "ok" writes the
\* artifact, "none" fails returning None, "raise" fails with an exception.
\* A missing source image cannot be translated.
TranslateOutcomes(f) ==
  IF f.src THEN {"ok", "none", "raise"} ELSE {"none", "raise"}

\* gdal.Open(tif).ReadAsArray(): a missing artifact opens as None and the
\* attribute access raises; an existing one decodes or raises.
ReadOutcomes(f, i) ==
  IF i \in f.art THEN {"ok", "raise"} ELSE {"raise"}

\* pandas.DataFrame([in_sizes, in_writes, in_reads], in_rows, in_columns)
\* builds the 3 x 6 frame only from three rows of six cells; a None among
\* the rows does not match the six column labels and raises.
Renders(s, w, r) == IsRow(s) /\ IsRow(w) /\ IsRow(r)

----------------------------------------------------------------------------
\* main(): the order in which the stage functions are called.

MainNext(s) ==
  CASE s = "encode"   -> "size"
    [] s = "size"     -> "read"
    [] s = "read"     -> "teardown"
    [] s = "teardown" -> "report"
    [] s = "report"   -> "done"

\* The running stage function returns and main() calls the next one.
Enter ==
  /\ pc' = MainNext(pc)
  /\ stages' = IF MainNext(pc) = "done" THEN stages
               ELSE Append(stages, MainNext(pc))
  /\ idx' = 1
  /\ loc' = EmptyRow

Init ==
  /\ fs \in FsStates
  /\ fs0 = fs
  /\ pc = "start"
  /\ idx = 1
  /\ loc = EmptyRow
  /\ writes = Unset
  /\ sizes = Unset
  /\ reads = Unset
  /\ table = "none"
  /\ stages = <<>>
  /\ op = "none"
  /\ encTried = 0
  /\ sizeTried = 0
  /\ readTried = 0
  /\ encFailed = {}
  /\ decFailed = {}
  /\ rmTried = 0
  /\ rmdirTried = FALSE

\* Module level: the scratch directory is prepared, then main() is called
\* and calls generate_compressed_images.  An exception here is not caught.
Startup ==
  /\ pc = "start"
  /\ LET r == PrepareScratch(fs) IN
       /\ fs' = r.fs
       /\ pc' = IF r.err THEN "crashed" ELSE "encode"
       /\ stages' = IF r.err THEN stages ELSE <<"encode">>
  /\ op' = "prepare"
  /\ UNCHANGED <<fs0, idx, loc, writes, sizes, reads, table,
                 encTried, encFailed, decFailed, rmTried, rmdirTried,
                 sizeTried, readTried>>

\* generate_compressed_images: one iteration of the for loop.
EncodeStep ==
  /\ pc = "encode"
  /\ idx <= NumVariants
  /\ encTried' = idx
  /\ op' = "translate"
  /\ \E out \in TranslateOutcomes(fs) :
       \/ /\ out = "ok"
          /\ fs' = [fs EXCEPT !.art = @ \cup {idx}]
          /\ loc' = [loc EXCEPT ![idx] = Measured]
          /\ idx' = idx + 1
          /\ UNCHANGED <<pc, stages, writes, encFailed>>
       \/ /\ out = "none"
          /\ loc' = [loc EXCEPT ![idx] = Measured]
          /\ idx' = idx + 1
          /\ encFailed' = encFailed \cup {idx}
          /\ UNCHANGED <<fs, pc, stages, writes>>
       \/ /\ out = "raise"
          /\ encFailed' = encFailed \cup {idx}
          /\ writes' = NoneVal
          /\ Enter
          /\ UNCHANGED fs
  /\ UNCHANGED <<fs0, sizes, reads, table, decFailed, rmTried, rmdirTried,
                 sizeTried, readTried>>

\* generate_compressed_images: the loop is over, the list is returned.
EncodeReturn ==
  /\ pc = "encode"
  /\ idx = NumVariants + 1
  /\ writes' = ListOf(loc)
  /\ Enter
  /\ UNCHANGED <<fs, fs0, sizes, reads, table, op,
                 encTried, encFailed, decFailed, rmTried, rmdirTried,
                 sizeTried, readTried>>

\* calculate_file_size: one iteration; os.path.getsize raises on a missing
\* file and the except clause around the loop ends the function.
SizeStep ==
  /\ pc = "size"
  /\ idx <= NumVariants
  /\ op' = "getsize"
  /\ sizeTried' = idx
  /\ IF idx \in fs.art
       THEN /\ loc' = [loc EXCEPT ![idx] = Measured]
            /\ idx' = idx + 1
            /\ UNCHANGED <<pc, stages, sizes>>
       ELSE /\ sizes' = NoneVal
            /\ Enter
  /\ UNCHANGED <<fs, fs0, writes, reads, table,
                 encTried, encFailed, decFailed, rmTried, rmdirTried,
                 readTried>>

SizeReturn ==
  /\ pc = "size"
  /\ idx = NumVariants + 1
  /\ sizes' = ListOf(loc)
  /\ Enter
  /\ UNCHANGED <<fs, fs0, writes, reads, table, op,
                 encTried, encFailed, decFailed, rmTried, rmdirTried,
                 sizeTried, readTried>>

\* calculate_read_times: one iteration.
ReadStep ==
  /\ pc = "read"
  /\ idx <= NumVariants
  /\ op' = "open"
  /\ readTried' = idx
  /\ \E out \in ReadOutcomes(fs, idx) :
       \/ /\ out = "ok"
          /\ loc' = [loc EXCEPT ![idx] = Measured]
          /\ idx' = idx + 1
          /\ UNCHANGED <<pc, stages, reads, decFailed>>
       \/ /\ out = "raise"
          /\ decFailed' = IF idx \in fs.art THEN decFailed \cup {idx}
                          ELSE decFailed
          /\ reads' = NoneVal
          /\ Enter
  /\ UNCHANGED <<fs, fs0, writes, sizes, table,
                 encTried, encFailed, rmTried, rmdirTried,
                 sizeTried>>

ReadReturn ==
  /\ pc = "read"
  /\ idx = NumVariants + 1
  /\ reads' = ListOf(loc)
  /\ Enter
  /\ UNCHANGED <<fs, fs0, writes, sizes, table, op,
                 encTried, encFailed, decFailed, rmTried, rmdirTried,
                 sizeTried, readTried>>

\* remove_directory: one os.remove of the for loop; an exception leaves the
\* loop and skips os.removedirs.
RemoveStep ==
  /\ pc = "teardown"
  /\ idx <= NumVariants
  /\ op' = "remove"
  /\ rmTried' = idx
  /\ LET r == OsRemove(fs, idx) IN
       /\ fs' = r.fs
       /\ IF r.err
            THEN Enter
            ELSE /\ idx' = idx + 1
                 /\ UNCHANGED <<pc, stages, loc>>
  /\ UNCHANGED <<fs0, writes, sizes, reads, table,
                 encTried, encFailed, decFailed, rmdirTried,
                 sizeTried, readTried>>

\* remove_directory without the call of os.removedirs.
RemoveDirKeepsDirectory ==
  /\ pc = "teardown"
  /\ idx = NumVariants + 1
  /\ op' = "removedirs"
  /\ rmdirTried' = TRUE
  /\ Enter
  /\ UNCHANGED <<fs, fs0, writes, sizes, reads, table,
                 encTried, encFailed, decFailed, rmTried,
                 sizeTried, readTried>>

\* remove_directory: os.removedirs(delete_directory) after the loop.
RemoveDir ==
  /\ pc = "teardown"
  /\ idx = NumVariants + 1
  /\ op' = "removedirs"
  /\ rmdirTried' = TRUE
  /\ fs' = OsRemoveDirs(fs).fs
  /\ Enter
  /\ UNCHANGED <<fs0, writes, sizes, reads, table,
                 encTried, encFailed, decFailed, rmTried,
                 sizeTried, readTried>>

\* print_results, then main() returns.
Report ==
  /\ pc = "report"
  /\ op' = "render"
  /\ table' = IF Renders(sizes, writes, reads) THEN "rendered" ELSE "error"
  /\ Enter
  /\ UNCHANGED <<fs, fs0, writes, sizes, reads,
                 encTried, encFailed, decFailed, rmTried, rmdirTried,
                 sizeTried, readTried>>

Next ==
  \/ Startup
  \/ EncodeStep
  \/ EncodeReturn
  \/ SizeStep
  \/ SizeReturn
  \/ ReadStep
  \/ ReadReturn
  \/ RemoveStep
  \/ RemoveDir
  \/ Report

Spec == Init /\ [][Next]_vars

TypeOK ==
  /\ fs \in [parent : BOOLEAN, src : BOOLEAN, other : BOOLEAN,
             tmp : BOOLEAN, extra : BOOLEAN, art : SUBSET files]
  /\ pc \in {"start", "encode", "size", "read", "teardown", "report",
             "done", "crashed"}
  /\ idx \in 1..NumVariants + 1
  /\ table \in {"none", "rendered", "error"}

----------------------------------------------------------------------------
\* Properties.

\* The order main() is documented to call the stages in.
StageOrder == <<"encode", "size", "read", "teardown", "report">>

\* main() has left the stage function s behind.
Returned(s) ==
  \E k \in 1..Len(stages) : stages[k] = s /\ (k < Len(stages) \/ pc = "done")

\* Number of times main() called the stage s.
Calls(s) == Cardinality({k \in 1..Len(stages) : stages[k] = s})

\* C1: in a run on an existing source image, each of the three rows handed
\* to print_results is a list of exactly six entries, entry i belonging to
\* variant i, and a failed measurement holds the empty sentinel at its own
\* position.
C1_RowsHaveSixAlignedEntries ==
  (fs0.src /\ pc = "report") =>
    /\ IsRow(sizes) /\ IsRow(writes) /\ IsRow(reads)
    /\ \A i \in encFailed : writes.cells[i] = Sentinel
    /\ \A i \in decFailed : reads.cells[i] = Sentinel

\* C2: in a run on an existing source image, when the encode of variant i
\* fails, the failure is caught, position i of the write row is the empty
\* sentinel and the loop goes on to encode every remaining variant.
C2_EncodeFailureIsIsolated ==
  (fs0.src /\ Returned("encode")) =>
    \A i \in encFailed :
      /\ IsRow(writes)
      /\ writes.cells[i] = Sentinel
      /\ encTried = NumVariants

\* C3: in a run on an existing source image, when the artifact of variant i
\* is missing at measurement time because its encode failed, position i of
\* the size row and of the read row is the sentinel and every variant whose
\* artifact exists has a real size and a real read time at its own position.
C3_MissingArtifactDegradesToSentinel ==
  (fs0.src /\ pc = "teardown" /\ rmTried = 0 /\ decFailed = {}) =>
    \A i \in encFailed \ fs.art :
      /\ IsRow(sizes) /\ sizes.cells[i] = Sentinel
      /\ IsRow(reads) /\ reads.cells[i] = Sentinel
      /\ \A j \in fs.art :
           sizes.cells[j] = Measured /\ reads.cells[j] = Measured

\* C4: in a run on an existing source image, when teardown is over, also
\* after a deletion that failed, it has attempted to delete every artifact
\* of the catalog and has attempted to remove the scratch directory, and
\* the run goes on.
C4_TeardownAttemptsEverything ==
  (fs0.src /\ Returned("teardown")) =>
    /\ rmTried = NumVariants
    /\ rmdirTried
    /\ pc # "crashed"

\* C5: in a run started on a source image that does not exist, no state has
\* the scratch directory or an artifact that was not there at the start.
C5_MissingSourceCreatesNothing ==
  ~fs0.src => /\ (fs.tmp => fs0.tmp)
              /\ fs.art \subseteq fs0.art

\* A run in which all six variants were encoded, size-inspected and decoded.
AllSucceeded ==
  /\ encFailed = {} /\ decFailed = {}
  /\ IsRow(writes) /\ IsRow(sizes) /\ IsRow(reads)
  /\ \A i \in files : /\ writes.cells[i] = Measured
                      /\ sizes.cells[i] = Measured
                      /\ reads.cells[i] = Measured

\* C6: after a run in which all six variants were encoded, size-inspected
\* and decoded, with nothing but the artifacts in the scratch directory,
\* neither an artifact nor the scratch directory is left on disk.
C6_SuccessfulRunLeavesNothing ==
  (pc = "done" /\ AllSucceeded /\ ~fs0.extra) =>
    (fs.art = {} /\ ~fs.tmp)

C6_Witness ==
  /\ pc = "done" /\ AllSucceeded /\ ~fs0.extra
  /\ ~fs0.tmp /\ rmTried = NumVariants /\ rmdirTried

\* C7: in a run on an existing source image, whatever encode, size, decode
\* and deletion failures occur, the run reaches print_results and the 3 x 6
\* table is rendered.
C7_TableAlwaysRendered ==
  (fs0.src /\ pc = "done") => table = "rendered"

\* C8: preparing the scratch directory when it already exists raises no
\* error and leaves the directory and its contents as they were, and
\* preparing once more after a preparation changes nothing.
C8_PrepareIsIdempotent ==
  /\ fs0.tmp => pc # "crashed"
  /\ (op = "prepare" /\ fs0.tmp) => fs = fs0
  /\ (op = "prepare" /\ pc # "crashed") =>
        PrepareScratch(fs) = [fs |-> fs, err |-> FALSE]

C8_Witness ==
  /\ op = "prepare" /\ pc = "encode"
  /\ fs0.tmp /\ fs0.art = files /\ fs0.extra

\* The stage functions return in the order of main(): a size inspection
\* happens only after generate_compressed_images has returned, a decode only
\* after calculate_file_size has returned, remove_directory is called once
\* and after the three measurement functions have returned, and no artifact
\* is read once a deletion was attempted.
StagesReturnInOrder ==
  /\ Len(stages) <= Len(StageOrder)
  /\ \A k \in 1..Len(stages) : stages[k] = StageOrder[k]
  /\ op = "getsize" => writes # Unset
  /\ op = "open" => (writes # Unset /\ sizes # Unset)
  /\ op \in {"translate", "getsize", "open"} =>
        (rmTried = 0 /\ ~rmdirTried)
  /\ Calls("teardown") <= 1
  /\ Calls("teardown") = 1 =>
        (writes # Unset /\ sizes # Unset /\ reads # Unset)
  /\ pc = "done" => Calls("teardown") = 1

\* C9: in a run on an existing source image, the stages run in the order
\* encode, size inspection, decode, teardown, report: no size inspection
\* starts before the encode stage has gone through all six variants, no
\* decode starts before the size stage has gone through all six, teardown
\* runs once and only after the three measurement stages have gone through
\* all six variants, and no artifact is read after teardown has begun.
C9_StagesFinishAllVariantsInOrder ==
  fs0.src =>
    /\ StagesReturnInOrder
    /\ sizeTried > 0 => encTried = NumVariants
    /\ readTried > 0 => sizeTried = NumVariants
    /\ Calls("teardown") = 1 =>
          /\ encTried = NumVariants
          /\ sizeTried = NumVariants
          /\ readTried = NumVariants

\* C10: the program creates, overwrites and deletes nothing but the scratch
\* directory and the six artifacts: the source image, the directory that
\* holds it and every other entry are at any time as they were at start.
C10_OnlyScratchIsTouched ==
  /\ fs.parent = fs0.parent
  /\ fs.src = fs0.src
  /\ fs.other = fs0.other
  /\ fs.extra = fs0.extra

\* The frame of C10 restricted to runs whose source image exists at start:
\* the parent directory then holds the image and is never pruned or created.
FrameHoldsWhenSourceExists ==
  fs0.src => C10_OnlyScratchIsTouched

====
